---- MODULE Spec2Model ----
(***************************************************************************)
(* Model of dashboard.py, a Streamlit fleet dashboard.                     *)
(*                                                                         *)
(* Streamlit re-executes the whole script on every interaction.  A button  *)
(* handler writes st.session_state and calls st.rerun(), and the rerun     *)
(* renders the view the new session state selects.  One action below is    *)
(* one click together with the rerun it causes.                            *)
(*                                                                         *)
(* Vibration is kept in tenths of mm/s (12.5 mm/s is 125, the 8 mm/s       *)
(* threshold is 80); Python's None is the string "None".                   *)
(***************************************************************************)
EXTENDS Integers, Sequences, FiniteSets, TLC

VARIABLES
    current_view,      \* st.session_state.current_view
    selected_machine,  \* st.session_state.selected_machine
    page,              \* what the last script run looked up and emitted
    last_click         \* the button whose handler ran in the last script run

vars == <<current_view, selected_machine, page, last_click>>

None == "None"

\* How many values next to the lower end of a random range are sampled
\* (the upper end is always sampled too).
Samples == 1

----------------------------------------------------------------------------
(* 2. MOCK DATA ENGINE *)

\* np.random.randint(lo, hi): an integer of lo .. hi-1
RandInt(lo, hi) == {v \in lo..(hi - 1) : v - lo < Samples \/ v = hi - 1}

\* np.random.uniform(lo, hi), in tenths
Uniform(lo, hi) == {v \in lo..hi : v - lo < Samples \/ v = hi}

DefaultData ==
    {[status |-> "RUNNING", amps |-> a, vib |-> v, temp |-> t, jams |-> 0, oee |-> 88] :
        a \in RandInt(380, 420), v \in Uniform(21, 35), t \in RandInt(60, 75)}

Mill2LogicNoStatus(machine_name, data) ==
    IF machine_name = "Mill 2"
    THEN [data EXCEPT !.vib = 125, !.temp = 88, !.amps = 450]
    ELSE data

Mill2Logic(machine_name, data) ==
    IF machine_name = "Mill 2"
    THEN [data EXCEPT !.status = "CRITICAL", !.vib = 125, !.temp = 88, !.amps = 450]
    ELSE data

Shredder2LogicNoJams(machine_name, data) ==
    IF machine_name = "Shredder 2"
    THEN [data EXCEPT !.status = "JAMMED", !.amps = 0, !.vib = 29]
    ELSE data

Shredder2Logic(machine_name, data) ==
    IF machine_name = "Shredder 2"
    THEN [data EXCEPT !.status = "JAMMED", !.amps = 0, !.jams = 4, !.vib = 29]
    ELSE data

\* The readings get_machine_status(machine_name) can return.
get_machine_status(machine_name) ==
    {Shredder2Logic(machine_name, Mill2Logic(machine_name, d)) : d \in DefaultData}

maintenance_db ==
    ("Shredder 1" :> [Next |-> "Blade Rotation", Due |-> "140 hrs", Spare_Status |-> "OK"]) @@
    ("Shredder 2" :> [Next |-> "Hardfacing", Due |-> "12 hrs", Spare_Status |-> "OK"]) @@
    ("Mill 1" :> [Next |-> "Greasing", Due |-> "4 hrs", Spare_Status |-> "OK"]) @@
    ("Mill 2" :> [Next |-> "Bearing Replacement", Due |-> "OVERDUE", Spare_Status |-> "MISSING"]) @@
    ("Mill 3" :> [Next |-> "Filter Change", Due |-> "200 hrs", Spare_Status |-> "OK"]) @@
    ("Unit 2 Shredder" :> [Next |-> "Gear Oil", Due |-> "48 hrs", Spare_Status |-> "LOW"]) @@
    ("Unit 2 Crusher" :> [Next |-> "Liner Check", Due |-> "72 hrs", Spare_Status |-> "OK"])

\* The {} that maintenance_db.get(name, {}) falls back to.
EmptyDict == [k \in {} |-> None]

\* maintenance_db.get(name, {})
MaintGet(name) ==
    IF name \in DOMAIN maintenance_db THEN maintenance_db[name] ELSE EmptyDict

----------------------------------------------------------------------------
(* 3. NAVIGATION & STATE *)

set_view_keeps_selection(view) ==
    [current_view |-> view, selected_machine |-> selected_machine]

set_view(view) ==
    [current_view |-> view, selected_machine |-> None]

select_machine_keeps_view(name) ==
    [current_view |-> current_view, selected_machine |-> name]

select_machine(name) ==
    [current_view |-> "Detail", selected_machine |-> name]

----------------------------------------------------------------------------
(* 4. UI COMPONENTS *)

\* The status icon of render_machine_card's colour logic.
StatusIcon(data) ==
    IF data.status = "JAMMED" THEN "orange"
    ELSE IF data.status = "CRITICAL" THEN "red"
    ELSE "green"

\* The cards render_machine_card(name) can draw: icon, load and vibration.
render_machine_card(name) ==
    {[name |-> name, status_icon |-> StatusIcon(d), amps |-> d.amps, vib |-> d.vib] :
        d \in get_machine_status(name)}

RECURSIVE CardSeqs(_)
CardSeqs(names) ==
    IF names = <<>> THEN {<<>>}
    ELSE {<<c>> \o rest : c \in render_machine_card(Head(names)), rest \in CardSeqs(Tail(names))}

----------------------------------------------------------------------------
(* 5. VIEWS *)

Unit1Cards == <<"Shredder 1", "Shredder 2", "Mill 1", "Mill 2", "Mill 3">>
Unit2Cards == <<"Unit 2 Shredder", "Unit 2 Crusher">>

Range(s) == {s[i] : i \in 1..Len(s)}

Machines == Range(Unit1Cards) \cup Range(Unit2Cards)

OverviewPage(view, cards) ==
    [view |-> view, cards |-> cards, title |-> None, vitals |-> <<>>,
     maint |-> EmptyDict, elements |-> <<>>, exception |-> None]

view_unit_1 == {OverviewPage("Unit 1", cs) : cs \in CardSeqs(Unit1Cards)}

view_unit_2 == {OverviewPage("Unit 2", cs) : cs \in CardSeqs(Unit2Cards)}

\* One element a streamlit call emits.
Element(call, text) == [call |-> call, text |-> text]

DueColumn(maint) ==
    IF maint["Due"] = "OVERDUE"
    THEN <<Element("error", <<"JOB OVERDUE">>)>>
    ELSE <<Element("success", <<"Due in: ", maint["Due"]>>)>>

SparesColumnNoElse(maint) ==
    IF maint["Spare_Status"] = "MISSING"
    THEN <<Element("markdown",
                   <<"SPARES MISSING", "Cannot perform ", maint["Next"],
                     ". Spare parts stock is 0.", "ORDER IMMEDIATELY">>)>>
    ELSE IF maint["Spare_Status"] = "LOW"
    THEN <<Element("warning", <<"Stock Low: Re-order suggested.">>)>>
    ELSE <<>>

SparesColumnNoOrder(maint) ==
    IF maint["Spare_Status"] = "MISSING"
    THEN <<Element("markdown",
                   <<"SPARES MISSING", "Cannot perform ", maint["Next"],
                     ". Spare parts stock is 0.">>)>>
    ELSE IF maint["Spare_Status"] = "LOW"
    THEN <<Element("warning", <<"Stock Low: Re-order suggested.">>)>>
    ELSE <<Element("success", <<"Spares Available">>)>>

SparesColumn(maint) ==
    IF maint["Spare_Status"] = "MISSING"
    THEN <<Element("markdown",
                   <<"SPARES MISSING", "Cannot perform ", maint["Next"],
                     ". Spare parts stock is 0.", "ORDER IMMEDIATELY">>)>>
    ELSE IF maint["Spare_Status"] = "LOW"
    THEN <<Element("warning", <<"Stock Low: Re-order suggested.">>)>>
    ELSE <<Element("success", <<"Spares Available">>)>>

\* Tab 2 with the spares column emitted before the schedule column.
MaintenanceTabSparesFirst(maint) ==
    [elements |-> <<Element("subheader", <<"Spares Inventory Check">>)>> \o SparesColumn(maint)
                  \o <<Element("subheader", <<"Maintenance Schedule">>),
                       Element("info", <<"Next Job: ", maint["Next"]>>)>> \o DueColumn(maint),
     exception |-> None]

\* Tab 2, "Maintenance & Spares": what it emits for the dict maint, and the
\* exception a missing key raises; a KeyError ends the script run.
MaintenanceTab(maint) ==
    LET s1 == <<Element("subheader", <<"Maintenance Schedule">>)>>
    IN  IF "Next" \notin DOMAIN maint THEN [elements |-> s1, exception |-> "KeyError"]
        ELSE LET s2 == s1 \o <<Element("info", <<"Next Job: ", maint["Next"]>>)>>
        IN  IF "Due" \notin DOMAIN maint THEN [elements |-> s2, exception |-> "KeyError"]
        ELSE LET s3 == s2 \o DueColumn(maint)
                           \o <<Element("subheader", <<"Spares Inventory Check">>)>>
        IN  IF "Spare_Status" \notin DOMAIN maint
            THEN [elements |-> s3, exception |-> "KeyError"]
            ELSE [elements |-> s3 \o SparesColumn(maint), exception |-> None]

\* view_detail up to the tabs: title, the reading and the looked-up record.
DetailHead(name, data, maint) ==
    [view |-> "Detail", cards |-> <<>>, title |-> name,
     vitals |-> <<[data |-> data,
                   amps_delta |-> IF data.amps > 440 THEN "High" ELSE "Normal",
                   vib_delta |-> IF data.vib > 80 THEN "CRITICAL" ELSE "Normal"]>>,
     maint |-> maint, elements |-> <<>>, exception |-> None]

WithTab(head, tab) ==
    [head EXCEPT !.elements = tab.elements, !.exception = tab.exception]

\* The pages view_detail can render when no button of it is pressed.
view_detail ==
    {WithTab(DetailHead(selected_machine', d, MaintGet(selected_machine')),
             MaintenanceTab(MaintGet(selected_machine'))) :
        d \in get_machine_status(selected_machine')}

BackUnit1NamesWithoutMill2 == {"Shredder 1", "Shredder 2", "Mill 1", "Mill 3"}

\* The list the Back button tests the selected machine against.
BackUnit1Names == {"Shredder 1", "Shredder 2", "Mill 1", "Mill 2", "Mill 3"}

BackTarget(name) == IF name \in BackUnit1Names THEN "Unit 1" ELSE "Unit 2"

----------------------------------------------------------------------------
(* 6. MAIN APP CONTROLLER *)

\* "Render Active View": the pages the script run can end with, for the
\* session state the handler left.
RenderActiveView ==
    IF current_view' = "Unit 1" THEN page' \in view_unit_1
    ELSE IF current_view' = "Unit 2" THEN page' \in view_unit_2
    ELSE IF current_view' = "Detail" THEN page' \in view_detail
    ELSE page' = OverviewPage(current_view', <<>>)

Apply(nav) ==
    /\ current_view' = nav.current_view
    /\ selected_machine' = nav.selected_machine

\* Which button's handler ran: its kind, its argument, the view it was pressed
\* in, and whether the same button was the one pressed the time before.
Click(type, arg) ==
    [type |-> type, arg |-> arg, from |-> current_view,
     again |-> (last_click.type = type /\ last_click.arg = arg)]

Units == {"Unit 1", "Unit 2"}

Init ==
    /\ current_view = "Unit 1"
    /\ selected_machine = None
    /\ page \in view_unit_1
    /\ last_click = [type |-> None, arg |-> None, from |-> None, again |-> FALSE]

\* A sidebar button: set_view(u), st.rerun()
SelectUnit(u) ==
    /\ Apply(set_view(u))
    /\ last_click' = Click("SelectUnit", u)
    /\ RenderActiveView

\* The handler of a card button: select_machine(name), st.rerun()
SelectMachine(name) ==
    /\ Apply(select_machine(name))
    /\ last_click' = Click("SelectMachine", name)
    /\ RenderActiveView

\* A card's "Select" button, which exists on the page that drew the card.
ClickCard(name) ==
    /\ \E i \in 1..Len(page.cards) : page.cards[i].name = name
    /\ SelectMachine(name)

\* "Back to Fleet", which view_detail draws first.
Back ==
    /\ page.view = "Detail"
    /\ Apply(set_view(BackTarget(selected_machine)))
    /\ last_click' = Click("Back", selected_machine)
    /\ RenderActiveView

Next ==
    \/ \E u \in Units : SelectUnit(u)
    \/ \E name \in Machines : ClickCard(name)
    \/ Back

Spec == Init /\ [][Next]_vars

----------------------------------------------------------------------------
(* The handlers called with any machine id, as select_machine's signature  *)
(* allows: the cards only ever pass the names of Machines.                 *)

Ids == Machines \cup {"Nonexistent"}

NextDispatch ==
    \/ \E u \in Units : SelectUnit(u)
    \/ \E id \in Ids : SelectMachine(id)
    \/ Back

SpecDispatch == Init /\ [][NextDispatch]_vars

----------------------------------------------------------------------------
(* Tab 2 of view_detail applied to any record the maintenance store can    *)
(* hold: every due state of the store with every spare status.             *)

DueStates == {maintenance_db[m]["Due"] : m \in DOMAIN maintenance_db}

SpareStatuses == {maintenance_db[m]["Spare_Status"] : m \in DOMAIN maintenance_db}

Records(name) ==
    {[Next |-> maintenance_db[name]["Next"], Due |-> d, Spare_Status |-> s] :
        d \in DueStates, s \in SpareStatuses}

UnitOf(m) == IF m \in Range(Unit1Cards) THEN "Unit 1" ELSE "Unit 2"

\* view_detail has run up to the tabs, for a selected machine and its record.
InitAlerts ==
    \E name \in Machines :
        /\ current_view = "Detail"
        /\ selected_machine = name
        /\ \E d \in get_machine_status(name), r \in Records(name) :
               page = DetailHead(name, d, r)
        /\ last_click = [type |-> "SelectMachine", arg |-> name,
                         from |-> UnitOf(name), again |-> FALSE]

RenderMaintenanceTab ==
    /\ page.view = "Detail"
    /\ page.elements = <<>>
    /\ page' = WithTab(page, MaintenanceTab(page.maint))
    /\ UNCHANGED <<current_view, selected_machine, last_click>>

SpecAlerts == InitAlerts /\ [][RenderMaintenanceTab]_vars

----------------------------------------------------------------------------
(* Vocabulary of the properties *)

Severity(e) ==
    IF e.call \in {"error", "markdown"} THEN "Critical"
    ELSE IF e.call = "warning" THEN "Warning"
    ELSE "Info"

Rank(e) ==
    IF Severity(e) = "Critical" THEN 3 ELSE IF Severity(e) = "Warning" THEN 2 ELSE 1

Contains(e, s) == \E i \in 1..Len(e.text) : e.text[i] = s

DueBranch(e) == e.text[1] \in {"JOB OVERDUE", "Due in: "}

SpareBranch(e) ==
    e.text[1] \in {"SPARES MISSING", "Stock Low: Re-order suggested.", "Spares Available"}

IsAlert(e) == DueBranch(e) \/ SpareBranch(e)

\* The alerts of the page, in the order the script emitted them.
Alerts == SelectSeq(page.elements, IsAlert)

\* Tab 2 has run to its end for a record that holds all three keys.
TabRendered ==
    /\ page.view = "Detail"
    /\ page.elements # <<>>
    /\ page.exception = None

OverdueMissing ==
    /\ TabRendered
    /\ page.maint["Due"] = "OVERDUE"
    /\ page.maint["Spare_Status"] = "MISSING"

----------------------------------------------------------------------------
(* Properties *)

\* C1: in every reachable state the view is Detail if and only if a machine
\* is selected.
C1_DetailIffSelected ==
    (current_view = "Detail") <=> (selected_machine # None)

C1_Witness ==
    /\ last_click.type = "SelectMachine"
    /\ current_view = "Detail"
    /\ selected_machine = "Unit 2 Crusher"

\* C2: SelectMachine(id) with an id of no known machine leaves the view and
\* the selected machine as they were (and is rejected as UnknownMachine).
C2_UnknownMachineRejected ==
    [][\A id \in Ids \ Machines :
          SelectMachine(id) =>
              /\ current_view' = current_view
              /\ selected_machine' = selected_machine]_vars

\* C3: Back pressed in Detail with a known machine m selected leads to the
\* overview of m's unit, the one that draws m's card, with no machine
\* selected.
C3_BackReturnsToUnit ==
    (last_click.type = "Back" /\ last_click.arg \in Machines) =>
        /\ last_click.from = "Detail"
        /\ current_view = UnitOf(last_click.arg)
        /\ selected_machine = None
        /\ page.view = UnitOf(last_click.arg)
        /\ \E i \in 1..Len(page.cards) : page.cards[i].name = last_click.arg

C3_Witness ==
    /\ last_click.type = "Back"
    /\ last_click.arg = "Mill 2"
    /\ current_view = "Unit 1"
    /\ selected_machine = None

\* C4: SelectUnit(u) can be dispatched in every state, always leads to u's
\* overview with no machine selected, and dispatched right after itself it
\* leaves the view and the selection as they are.
C4_SelectUnitTotalIdempotent ==
    /\ [](\A u \in Units : ENABLED SelectUnit(u))
    /\ [][\A u \in Units :
             SelectUnit(u) =>
                 /\ current_view' = u
                 /\ selected_machine' = None
                 /\ (last_click.type = "SelectUnit" /\ last_click.arg = u) =>
                        /\ current_view' = current_view
                        /\ selected_machine' = selected_machine]_vars

C4_Witness ==
    /\ last_click.type = "SelectUnit"
    /\ last_click.again
    /\ last_click.arg = "Unit 2"
    /\ current_view = "Unit 2"
    /\ selected_machine = None

\* C5: every reading the status source produces with vibration above
\* 8.0 mm/s is reported Critical, on the cards and in the detail view.
C5_HighVibrationCritical ==
    /\ \A i \in 1..Len(page.cards) :
           page.cards[i].vib > 80 => page.cards[i].status_icon = "red"
    /\ \A i \in 1..Len(page.vitals) :
           page.vitals[i].data.vib > 80 => page.vitals[i].data.status = "CRITICAL"

C5_Witness ==
    /\ page.view = "Detail"
    /\ page.vitals[1].data.vib > 80
    /\ page.vitals[1].data.status = "CRITICAL"

\* C6: every reading with vibration at most 8.0 mm/s is reported Jammed
\* exactly when amps = 0 and the jam count is positive; amps = 0 with no jam
\* is reported Running.
C6_JammedIffStalledWithJams ==
    \A i \in 1..Len(page.vitals) :
        LET d == page.vitals[i].data
        IN  d.vib <= 80 =>
                /\ (d.status = "JAMMED") <=> (d.amps = 0 /\ d.jams > 0)
                /\ (d.amps = 0 /\ d.jams = 0) => d.status = "RUNNING"

C6_Witness ==
    /\ page.view = "Detail"
    /\ page.vitals[1].data.vib <= 80
    /\ page.vitals[1].data.status = "JAMMED"
    /\ page.vitals[1].data.amps = 0
    /\ page.vitals[1].data.jams > 0

\* C7 as stated: for an Overdue record with Missing spares the alerts are
\* exactly three Critical ones, "SPARES MISSING" naming the job, a separate
\* "ORDER IMMEDIATELY" and "Job overdue".
C7_ThreeCriticalAlerts ==
    OverdueMissing =>
        /\ Len(Alerts) = 3
        /\ \A i \in 1..Len(Alerts) : Severity(Alerts[i]) = "Critical"
        /\ \E i, j, k \in 1..Len(Alerts) :
               /\ i # j /\ j # k /\ i # k
               /\ Contains(Alerts[i], "SPARES MISSING")
               /\ Contains(Alerts[i], page.maint["Next"])
               /\ Contains(Alerts[j], "ORDER IMMEDIATELY")
               /\ Contains(Alerts[k], "JOB OVERDUE")

\* C7 amended: for an Overdue record with Missing spares the alerts are
\* exactly two Critical ones: "JOB OVERDUE", then one alert box that holds
\* "SPARES MISSING", the name of the job and "ORDER IMMEDIATELY" together.
C7_TwoCriticalAlerts ==
    OverdueMissing =>
        /\ Len(Alerts) = 2
        /\ \A i \in 1..Len(Alerts) : Severity(Alerts[i]) = "Critical"
        /\ Alerts[1] = Element("error", <<"JOB OVERDUE">>)
        /\ Alerts[2].call = "markdown"
        /\ Contains(Alerts[2], "SPARES MISSING")
        /\ Contains(Alerts[2], page.maint["Next"])
        /\ Contains(Alerts[2], "ORDER IMMEDIATELY")

C7_Witness ==
    /\ OverdueMissing
    /\ selected_machine = "Mill 2"
    /\ Len(Alerts) = 2

\* C8: for every record with a due state and a spare status the alerts are
\* never empty: exactly one comes from the due-state branch and at least one
\* from the spare-status branch.
C8_AlertsNeverEmpty ==
    TabRendered =>
        /\ Alerts # <<>>
        /\ Cardinality({i \in 1..Len(Alerts) : DueBranch(Alerts[i])}) = 1
        /\ Cardinality({i \in 1..Len(Alerts) : SpareBranch(Alerts[i])}) >= 1

C8_Witness ==
    /\ TabRendered
    /\ page.maint["Due"] = "OVERDUE"
    /\ page.maint["Spare_Status"] = "OK"
    /\ Len(Alerts) = 2

\* C9 as stated: the alerts of one machine are emitted in descending order
\* of severity.
C9_DescendingSeverity ==
    TabRendered =>
        \A i, j \in 1..Len(Alerts) : i < j => Rank(Alerts[i]) >= Rank(Alerts[j])

\* C9 amended: the alerts of one machine are emitted in the order the rules
\* are evaluated, the due-state alert and then the spare-status alert, not
\* sorted by severity: for a job due in some hours with Low spares the Info
\* "Due in" precedes the Warning "re-order suggested".
C9_EvaluationOrder ==
    TabRendered =>
        /\ Len(Alerts) = 2
        /\ DueBranch(Alerts[1])
        /\ SpareBranch(Alerts[2])
        /\ (page.maint["Due"] # "OVERDUE" /\ page.maint["Spare_Status"] = "LOW") =>
               /\ Severity(Alerts[1]) = "Info"
               /\ Severity(Alerts[2]) = "Warning"

C9_Witness ==
    /\ TabRendered
    /\ page.maint["Due"] = "48 hrs"
    /\ page.maint["Spare_Status"] = "LOW"
    /\ Alerts[1] = Element("success", <<"Due in: ", "48 hrs">>)
    /\ Alerts[2] = Element("warning", <<"Stock Low: Re-order suggested.">>)

\* C10: when the detail view is prepared for a selected machine that has no
\* maintenance record, the view still completes and the navigation state is
\* the one that selected the machine.
C10_NoRecordViewCompletes ==
    (page.view = "Detail" /\ page.title \notin DOMAIN maintenance_db) =>
        /\ page.exception = None
        /\ current_view = "Detail"
        /\ selected_machine = page.title

====
